---- MODULE Spec2Model ----
(***************************************************************************)
(* A model of the formulate form encoder/decoder (github.com/cj123/        *)
(* formulate): HTTPDecoder.Decode (src/decode.go), HTMLEncoder.Encode      *)
(* (src/encode.go), StructField (src/unnamed/part_007) and the validation  *)
(* store (src/stores/sessions/sessions.go).                                *)
(*                                                                         *)
(* Strings that the code splits or joins are modelled by their parts: a    *)
(* key "formulate.YourDetails.Address.Country" is the sequence of its      *)
(* dot-separated segments, a show tag "visible,invisible" the sequence of  *)
(* its comma-separated names.  Posted values are strings; the parsers are  *)
(* tables over the literals the model posts.                               *)
(*                                                                         *)
(* Decoder and encoder are given the same validation store, as a handler   *)
(* does with SetValidationStore.  Each call is one step; last keeps what   *)
(* the call did: its result and, in order, the fields it visited, the form *)
(* keys it read, the validators it called, the values it assigned and the  *)
(* controls it rendered.                                                   *)
(*                                                                         *)
(* Spec starts from a configured decoder and encoder and any posted form   *)
(* of at most MaxPosted keys; SpecRoundTrip starts from a record, renders  *)
(* it, lets a browser post the rendered form and decodes the post.         *)
(* SpecHandler is a request handler: Decode, Encode and Formulate          *)
(* (src/formulate.go) on a session store some of whose operations may be   *)
(* failing.  SpecCalls passes Decode and Encode every kind of argument:    *)
(* structs and pointers to them, nil, nil pointers, numbers, a             *)
(* CustomDecoder and the struct of the multi-select test.  SpecRender is   *)
(* RenderHTMLToNode (src/html.go) on a parent with up to MaxChildren       *)
(* children.                                                               *)
(***************************************************************************)
EXTENDS Integers, Sequences, FiniteSets, TLC

VARIABLES
    rec,      \* the caller's record: [vals: path -> value, nilp: pointer path -> is nil]
    dec,      \* the HTTPDecoder instance
    enc,      \* the HTMLEncoder instance
    store,    \* the validation store shared by decoder and encoder
    last,     \* what the last call did (its result and the trace of its walk)
    nops,     \* calls made so far
    arg,      \* what the caller passes to Decode and Encode: the Go expression
    dom       \* the html.Node tree RenderHTMLToNode works on

vars == <<rec, dec, enc, store, last, nops, arg, dom>>

(***************************************************************************)
(* Bounds of the model.                                                    *)
(***************************************************************************)
MaxOps == 2
MaxPosted == 2
MaxChildren == 3

(***************************************************************************)
(* Sequence helpers.                                                       *)
(***************************************************************************)
Range(s) == {s[i] : i \in 1..Len(s)}

\* no html.Node at all: RenderHTMLToNode is not being called
NoTree == <<>>


\* strings.Split(label, ".")[2:] on a key given by its segments
DropTwo(key) == SubSeq(key, 3, Len(key))

(***************************************************************************)
(* The record type being encoded and decoded: the YourDetails fixture of   *)
(* the tests, cut to one field per kind the walkers distinguish.           *)
(***************************************************************************)
NoTag == <<"">>

Field(name, kind, show, validators, fields) ==
    [name |-> name, kind |-> kind, show |-> show,
     validators |-> validators, fields |-> fields]

Leaf(name, kind) == Field(name, kind, NoTag, NoTag, <<>>)

AddressType ==
    Field("Address", "struct", NoTag, NoTag, << Leaf("Country", "string") >>)

YourDetails ==
    Field("YourDetails", "struct", NoTag, NoTag,
      << Field("CountryCode", "string", NoTag, <<"countryCode", "minAge(20)">>, <<>>),
         Field("Age", "int", NoTag, <<"minAge(20)">>, <<>>),
         Field("Type", "uint", NoTag, NoTag, <<>>),
         Field("FavouriteNumber", "float", NoTag, NoTag, <<>>),
         Field("Checkbox", "bool", NoTag, <<"countryCode">>, <<>>),
         Field("Time", "time", NoTag, NoTag, <<>>),
         Field("Pet", "Pet", NoTag, NoTag, <<>>),
         Field("ContactMethod", "ContactMethod", NoTag, NoTag, <<>>),
         Field("TestMap", "map", NoTag, <<"countryCode">>, <<>>),
         Field("FavouriteFoods", "FoodSelect", NoTag, <<"countryCode">>, <<>>),
         Field("IgnoredField", "string", <<"-">>, NoTag, <<>>),
         Field("EmptyStruct", "struct", NoTag, NoTag,
               << Field("Foo", "string", <<"-">>, NoTag, <<>>) >>),
         Field("AddressLine2", "string", <<"visible", "invisible">>,
               <<"countryCode">>, <<>>),
         Field("Address", "ptr", <<"invisible">>, NoTag, << AddressType >>),
         Field("unexportedField", "string", NoTag, NoTag, <<>>) >>)

\* reflect.Type.String() of the record type, split at "."
TypeName == <<"formulate", "YourDetails">>

\* the struct of the multi-select test, with a checkbox of each kind; PinnedSelect is
\* a multi-select whose options carry an explicit Checked
SelectTest ==
    Field("test", "struct", NoTag, NoTag,
      << Leaf("Food", "FoodSelect"), Leaf("Number", "numberIndexedSelect"),
         Leaf("Pinned", "PinnedSelect"), Leaf("Checkbox", "bool"),
         Leaf("Subscribed", "BoolNumber") >>)

SelectTestName == <<"formulate", "test">>

\* a struct with an integer field of each kind that is narrower than the int64 and
\* uint64 the decoder parses into, and one that is not
Sized ==
    Field("sized", "struct", NoTag, NoTag,
      << Field("Small", "int8", NoTag, <<"minAge(20)">>, <<>>), Leaf("Byte", "uint8"),
         Leaf("Short", "int16"), Leaf("Long", "int64") >>)

SizedName == <<"formulate", "sized">>

SizedPaths == { <<"Small">>, <<"Byte">>, <<"Short">>, <<"Long">> }

SelectTestPaths ==
    { <<"Food">>, <<"Number">>, <<"Pinned">>, <<"Checkbox">>, <<"Subscribed">> }

(***************************************************************************)
(* What a caller passes to Decode and to Encode, named by the Go           *)
(* expression: a pointer to the record, the record itself, nil, a nil      *)
(* struct pointer, a number, a pointer to a number, a pointer to a slice   *)
(* that implements CustomDecoder, a pointer to the struct of the           *)
(* multi-select test.  A variable that is no struct has one value, at the  *)
(* empty path.                                                             *)
(***************************************************************************)
Args ==
    {"&YourDetails", "YourDetails", "nil", "(*YourDetails)(nil)", "int", "&int",
     "&customDecoderTest", "(*customDecoderTest)(nil)", "&test", "&sized"}

\* reflect.ValueOf(data).Kind() == reflect.Ptr
IsPtr(a) ==
    a \in {"&YourDetails", "(*YourDetails)(nil)", "&int", "&customDecoderTest",
           "(*customDecoderTest)(nil)", "&test", "&sized"}

\* data.(CustomDecoder)
IsCustomDecoder(a) == a \in {"&customDecoderTest", "(*customDecoderTest)(nil)"}

\* a nil pointer
IsNil(a) == a \in {"(*YourDetails)(nil)", "(*customDecoderTest)(nil)"}

\* the struct type behind the argument
StructOf(a) == CASE a = "&test" -> SelectTest [] a = "&sized" -> Sized [] OTHER -> YourDetails

\* reflect.Type.String() of the argument's struct type, split at "."
TypeNameOf(a) ==
    CASE a = "&test" -> SelectTestName [] a = "&sized" -> SizedName [] OTHER -> TypeName

UnexportedNames == {"unexportedField"}

\* the paths (field names from the record's root) of the leaves and the pointers
LeafPaths ==
    { <<"CountryCode">>, <<"Age">>, <<"Type">>, <<"FavouriteNumber">>, <<"Checkbox">>,
      <<"Time">>, <<"Pet">>, <<"ContactMethod">>, <<"TestMap">>, <<"FavouriteFoods">>,
      <<"IgnoredField">>, <<"EmptyStruct", "Foo">>, <<"AddressLine2">>,
      <<"Address", "Country">>, <<"unexportedField">> }

PtrPaths == { <<"Address">> }

(***************************************************************************)
(* Values.  A time is its wall-clock minute, the seconds (and below) in    *)
(* that minute, and its location; floats are counted in tenths; a map is   *)
(* named by its JSON text.                                                 *)
(***************************************************************************)
ZeroTime == [min |-> 0, sec |-> 0, loc |-> "UTC"]

\* reflect.Kind of the named types of the fixture ("map" stands for map, slice and
\* array)
Kind(kind) ==
    CASE kind \in {"Pet", "ContactMethod"} -> "string"
      [] kind \in {"numberIndexedSelect", "PinnedSelect"} -> "map"
      [] kind \in {"int8", "int16", "int64"} -> "int"
      [] kind = "uint8" -> "uint"
      [] OTHER -> kind

ZeroValue(kind) ==
    CASE Kind(kind) = "string" -> ""
      [] Kind(kind) \in {"int", "uint", "float"} -> 0
      [] kind = "bool" -> FALSE
      [] kind = "time" -> ZeroTime
      [] kind = "map" -> "nil"
      [] kind = "FoodSelect" -> <<>>

\* the value handed to a validator: an interface{} holding a typed value
TV(t, v) == [t |-> t, v |-> v]

(***************************************************************************)
(* strconv and time.Parse on the literals the model posts.                 *)
(***************************************************************************)
IntLits == ("0" :> 0) @@ ("1" :> 1) @@ ("7" :> 7) @@ ("25" :> 25) @@ ("025" :> 25)
               @@ ("40" :> 40) @@ ("-5" :> (0 - 5))
               @@ ("127" :> 127) @@ ("128" :> 128) @@ ("300" :> 300)
               @@ ("-129" :> (0 - 129)) @@ ("255" :> 255) @@ ("256" :> 256)
               @@ ("32768" :> 32768) @@ ("-1" :> (0 - 1))

\* strconv.ParseInt(s, 10, 0): a string not in the table is no integer or, like
\* "9223372036854775808", one out of the range of int, and gives an error
ParseInt(s) ==
    IF s \in DOMAIN IntLits THEN [err |-> FALSE, v |-> IntLits[s]]
    ELSE [err |-> TRUE, v |-> 0]

\* strconv.ParseUint(s, 10, 0): no sign is accepted
ParseUint(s) ==
    IF s \in DOMAIN IntLits /\ IntLits[s] >= 0 THEN [err |-> FALSE, v |-> IntLits[s]]
    ELSE [err |-> TRUE, v |-> 0]

FloatLits == ("0" :> 0) @@ ("1.5" :> 15) @@ ("25" :> 250) @@ ("1.50" :> 15)

\* strconv.ParseFloat(s, 64)
ParseFloat(s) ==
    IF s \in DOMAIN FloatLits THEN [err |-> FALSE, v |-> FloatLits[s]]
    ELSE [err |-> TRUE, v |-> 0]

TimeLits == ("0001-01-01T00:00" :> 0) @@ ("2020-05-28T15:28" :> 1)

\* time.Parse(timeFormat, s): minute precision, in UTC
ParseTime(s) ==
    IF s \in DOMAIN TimeLits
    THEN [err |-> FALSE, v |-> [min |-> TimeLits[s], sec |-> 0, loc |-> "UTC"]]
    ELSE [err |-> TRUE, v |-> ZeroTime]

JSONLits == {"{}", "{\"Foo\":\"Banana\"}"}

\* json.Unmarshal([]byte(s), &m)
ParseJSON(s) ==
    IF s \in JSONLits THEN [err |-> FALSE, v |-> s] ELSE [err |-> TRUE, v |-> "nil"]

(***************************************************************************)
(* The validators of the tests.                                            *)
(***************************************************************************)
ValidatorNames == {"countryCode", "minAge(20)"}

UpperLen3 == {"GBR"}

\* countryCodeValidator.Validate and minAgeValidator.Validate
Validate(name, tv) ==
    CASE name = "countryCode" ->
            IF tv.t = "string"
            THEN IF tv.v \in UpperLen3 THEN [ok |-> TRUE, message |-> ""]
                 ELSE [ok |-> FALSE,
                       message |-> "Country codes must be 3 letters and uppercase"]
            ELSE [ok |-> FALSE, message |-> "invalid type"]
      [] name = "minAge(20)" ->
            IF tv.t = "int64"
            THEN IF tv.v >= 20 THEN [ok |-> TRUE, message |-> ""]
                 ELSE [ok |-> FALSE, message |-> "You must be over 20!"]
            ELSE [ok |-> FALSE, message |-> "invalid type"]

(***************************************************************************)
(* StructField: the show and validators tags.                              *)
(***************************************************************************)
\* the first name of a show tag that is a registered condition, 0 if none is
FirstRegistered(show, showConditions) ==
    LET hits == {i \in 1..Len(show) : show[i] \in DOMAIN showConditions}
    IN IF hits = {} THEN 0 ELSE CHOOSE i \in hits : \A j \in hits : i <= j

\* a Hidden that hides a field naming conditions of which none is registered
HiddenUnlessRegistered(field, showConditions) ==
    LET i == FirstRegistered(field.show, showConditions)
    IN IF i > 0 THEN ~showConditions[field.show[i]] ELSE field.show # <<"">>

\* a Hidden that consults every registered condition the show tag names
HiddenIfAnyFalse(field, showConditions) ==
    \/ field.show = <<"-">>
    \/ \E i \in 1..Len(field.show) :
          field.show[i] \in DOMAIN showConditions /\ ~showConditions[field.show[i]]

\* StructField.Hidden
Hidden(field, showConditions) ==
    LET i == FirstRegistered(field.show, showConditions)
    IN IF i > 0 THEN ~showConditions[field.show[i]] ELSE field.show = <<"-">>

\* StructField.Validators: the validators tag split at ","
Validators(field) == field.validators

\* HTTPDecoder.getValidators: the registered ones among the keys, in the keys' order
getValidators(registered, keys) == SelectSeq(keys, LAMBDA k : k \in registered)

(***************************************************************************)
(* Element names.  The name of a form element is the prefix followed by    *)
(* the key without its first two segments, joined by ".".                  *)
(***************************************************************************)
ElementName(prefix, path) == [prefix |-> prefix, path |-> path]

\* formElementName of the decoder: no prefix
formElementName(key) == ElementName("", DropTwo(key))

\* FormElementName of the encoder
FormElementName(prefix, key) ==
    IF Len(key) > 2 THEN ElementName(prefix, DropTwo(key)) ELSE ElementName(prefix, key)

(***************************************************************************)
(* The validation store: the errors of each field, and the record saved    *)
(* by a Decode that failed validation.                                     *)
(***************************************************************************)
NoValue == [set |-> FALSE]

\* the operations of a ValidationStore
StoreOps ==
    {"AddValidationError", "GetValidationErrors", "SetFormValue", "GetFormValue",
     "ClearValidationErrors"}

\* a store with nothing in its session; fails: the operations that return an error
\* because what they rest on is failing (the session cannot be fetched or saved; for
\* GetFormValue, the snapshot file cannot be read)
EmptyStore == [errors |-> <<>>, value |-> NoValue, fails |-> {}]

\* Store.ClearValidationErrors: sess.Values = nil
ClearValidationErrors(st) ==
    IF "ClearValidationErrors" \in st.fails THEN [st |-> st, err |-> TRUE]
    ELSE [st |-> [st EXCEPT !.errors = <<>>, !.value = NoValue], err |-> FALSE]

\* the deferred function of Encode, run however Encode ends (failed: it is returning
\* an error or panicking)
EncodeDeferred(st, failed) == ClearValidationErrors(st)

\* Store.GetValidationErrors
GetValidationErrors(errors, field) ==
    IF field \in DOMAIN errors THEN errors[field] ELSE <<>>

\* Store.AddValidationError
AddValidationError(errors, field, validationError) ==
    [f \in DOMAIN errors \cup {field} |->
        IF f = field THEN Append(GetValidationErrors(errors, field), validationError)
        ELSE errors[f]]

(***************************************************************************)
(* HTTPDecoder.  The walk threads a state w: the record being written      *)
(* (vals, nilp), the store's errors, the decoder's failure counter (num),  *)
(* how the walk stands (status: "ok", "error" - an error is being          *)
(* returned -, "panic", "returned" - Decode returns nil without testing    *)
(* the counter) and, for the properties, what the walk did:                *)
(* the fields decode was called on (visited), the form keys looked up      *)
(* (lookups), the validator calls (calls), the assignments (assigned) and  *)
(* the store operations called with their outcome (sops); storeErr is the  *)
(* store operation whose error is being returned.                          *)
(***************************************************************************)
\* a getFormValues that reads an absent key as one empty value, as url.Values.Get does
getFormValuesOrEmpty(form, key) ==
    IF formElementName(key) \in DOMAIN form THEN form[formElementName(key)] ELSE <<"">>

\* HTTPDecoder.getFormValues
getFormValues(form, key) ==
    IF formElementName(key) \in DOMAIN form THEN form[formElementName(key)] ELSE <<>>

StartWalk(r, st, num) ==
    [vals |-> r.vals, nilp |-> r.nilp, errors |-> st.errors, num |-> num,
     status |-> "ok", err |-> <<>>, vok |-> TRUE,
     visited |-> <<>>, lookups |-> <<>>, calls |-> <<>>, assigned |-> <<>>,
     fails |-> st.fails, sops |-> <<>>, storeErr |-> "none"]

\* a store operation was called and this is how it ended
CalledWith(w, op, failed) == [w EXCEPT !.sops = Append(@, [op |-> op, failed |-> failed])]

Called(w, op) == CalledWith(w, op, op \in w.fails)

\* the error of a store operation is dropped
StoreFailIgnored(w, op) == w

\* return err, err being the error of a store operation
StoreFail(w, op) == [w EXCEPT !.status = "error", !.storeErr = op]

\* a return of the parse error that first empties the store of validation errors
FailClearing(w, key) == [w EXCEPT !.status = "error", !.err = DropTwo(key), !.errors = <<>>]

\* a parse error that is dropped, so that the walk goes on
Swallow(w, key) == w

\* return err: the walk stops with the parse error of the field at key
Fail(w, key) == [w EXCEPT !.status = "error", !.err = DropTwo(key)]

Panic(w, key) == [w EXCEPT !.status = "panic", !.err = DropTwo(key)]

\* the bits of an integer type
Width(type) ==
    CASE type \in {"int8", "uint8"} -> 8
      [] type = "int16" -> 16
      [] OTHER -> 64

\* reflect.Value.SetInt(x) and SetUint(x): x is converted to the type of the field,
\* which keeps its low bits; the literals of the model all fit 64 bits
Converted(type, x) ==
    LET m == 2 ^ Width(type)
    IN IF Width(type) = 64 THEN x
       ELSE IF Kind(type) = "uint" THEN x % m
       ELSE ((x + m \div 2) % m) - m \div 2

\* reflect.Value.Set and its kin: panics on a value reached through an unexported field
SetValue(w, key, ro, v) ==
    IF ro THEN Panic(w, key)
    ELSE [w EXCEPT !.vals[DropTwo(key)] = v,
                   !.assigned = Append(@, [path |-> DropTwo(key), v |-> v])]

Lookup(w, key) == [w EXCEPT !.lookups = Append(@, formElementName(key))]

RECURSIVE runValidators(_, _, _, _, _)
\* the loop of HTTPDecoder.passedValidation
runValidators(w, key, value, validators, i) ==
    IF i > Len(validators) THEN w
    ELSE LET r == Validate(validators[i], value)
             w1 == [w EXCEPT !.calls = Append(@, [path |-> DropTwo(key),
                                                  validator |-> validators[i],
                                                  value |-> value, ok |-> r.ok,
                                                  before |-> Len(w.assigned) + 1])]
             w2 == IF r.ok THEN w1
                   ELSE IF "AddValidationError" \in w.fails
                   THEN StoreFail(Called([w1 EXCEPT !.num = @ + 1], "AddValidationError"),
                                  "AddValidationError")
                   ELSE [Called(w1, "AddValidationError")
                            EXCEPT !.num = @ + 1,
                                   !.errors = AddValidationError(@, formElementName(key),
                                                  [Error |-> r.message, Value |-> value]),
                                   !.vok = FALSE]
         IN IF w2.status # "ok" THEN w2
            ELSE runValidators(w2, key, value, validators, i + 1)

\* a passedValidation that returns ok alone, whatever the flag
passedValidationStrict(w, key, value, validators, setValueOnValidationError) ==
    runValidators([w EXCEPT !.vok = TRUE], key, value, validators, 1)

\* HTTPDecoder.passedValidation: w.vok tells whether the value may be assigned
passedValidation(w, key, value, validators, setValueOnValidationError) ==
    LET w1 == runValidators([w EXCEPT !.vok = TRUE], key, value, validators, 1)
    IN [w1 EXCEPT !.vok = @ \/ setValueOnValidationError]

\* validate the parsed value v (handed over as tv), assign it if it may be
ValidateAndSet(d, w, key, validators, ro, tv, v) ==
    LET w1 == passedValidation(w, key, tv, validators, d.setValueOnValidationError)
    IN IF w1.status # "ok" THEN w1
       ELSE IF w1.vok THEN SetValue(w1, key, ro, v) ELSE w1

\* FoodSelect.DecodeFormValue: the custom decoder of the tests' multi-select
DecodeFormValue(values) ==
    IF Len(values) = 0 THEN [valid |-> FALSE, v |-> <<>>] ELSE [valid |-> TRUE, v |-> values]

\* BoolNumber.DecodeFormValue: values[0] is read whatever the length of values
BoolNumberDecodeFormValue(values) ==
    IF Len(values) = 0 THEN [panic |-> TRUE, v |-> 0]
    ELSE [panic |-> FALSE, v |-> IF values[1] \in {"on", "1"} THEN 1 ELSE 0]

\* HTTPDecoder.decode, the concrete kinds: nothing posted leaves the field alone
decodeLeaf(d, w, type, key, validators, ro) ==
    LET values == getFormValues(d.form, key)
        w0 == Lookup(w, key)
        kind == Kind(type)
    IN IF Len(values) = 0 THEN w0
       ELSE LET formValue == values[1]
                zero == [err |-> FALSE, v |-> 0]
            IN CASE kind = "string" ->
                      ValidateAndSet(d, w0, key, validators, ro,
                                     TV("string", formValue), formValue)
                 [] kind = "float" ->
                      LET p == IF formValue # "" THEN ParseFloat(formValue) ELSE zero
                      IN IF p.err THEN Fail(w0, key)
                         ELSE ValidateAndSet(d, w0, key, validators, ro,
                                             TV("float64", p.v), p.v)
                 [] kind = "int" ->
                      LET p == IF formValue # "" THEN ParseInt(formValue) ELSE zero
                      IN IF p.err THEN Fail(w0, key)
                         ELSE ValidateAndSet(d, w0, key, validators, ro,
                                             TV("int64", p.v), Converted(type, p.v))
                 [] kind = "uint" ->
                      LET p == IF formValue # "" THEN ParseUint(formValue) ELSE zero
                      IN IF p.err THEN Fail(w0, key)
                         ELSE ValidateAndSet(d, w0, key, validators, ro,
                                             TV("uint64", p.v), Converted(type, p.v))
                 [] kind = "bool" ->
                      IF formValue = "on" THEN SetValue(w0, key, ro, TRUE)
                      ELSE LET p == IF formValue # "" THEN ParseInt(formValue) ELSE zero
                           IN IF p.err THEN Fail(w0, key)
                              ELSE ValidateAndSet(d, w0, key, validators, ro,
                                                  TV("bool", p.v = 1), p.v = 1)
                 [] kind = "map" ->
                      IF formValue = "" THEN SetValue(w0, key, ro, ZeroValue(kind))
                      ELSE LET p == ParseJSON(formValue)
                           IN IF p.err THEN Fail(w0, key)
                              ELSE SetValue(w0, key, ro, p.v)
                 [] OTHER -> w0

\* HTTPDecoder.decode, case CustomDecoder
decodeCustom(d, w, type, key, validators) ==
    LET values == getFormValues(d.form, key)
        w0 == Lookup(w, key)
    IN IF type = "BoolNumber"
       THEN LET b == BoolNumberDecodeFormValue(values)
            IN IF b.panic THEN Panic(w0, key)
               ELSE ValidateAndSet(d, w0, key, validators, FALSE, TV("BoolNumber", b.v), b.v)
       ELSE LET r == DecodeFormValue(values)
            IN IF ~r.valid THEN w0
               ELSE ValidateAndSet(d, w0, key, validators, FALSE, TV("FoodSelect", r.v), r.v)

\* HTTPDecoder.decode, case time.Time: with nothing posted the zero time is validated
\* and assigned
decodeTime(d, w, key, validators) ==
    LET values == getFormValues(d.form, key)
        w0 == Lookup(w, key)
        p == IF Len(values) > 0 THEN ParseTime(values[1]) ELSE [err |-> FALSE, v |-> ZeroTime]
    IN IF p.err THEN Fail(w0, key)
       ELSE ValidateAndSet(d, w0, key, validators, FALSE, TV("time", p.v), p.v)

RECURSIVE decode(_, _, _, _, _, _)
RECURSIVE decodeFields(_, _, _, _, _, _)

\* HTTPDecoder.decode, case reflect.Struct: the loop over the fields
decodeFields(d, w, node, key, ro, i) ==
    IF i > Len(node.fields) THEN w
    ELSE LET f == node.fields[i]
             childKey == Append(key, f.name)
             w0 == [w EXCEPT !.visited = Append(@, DropTwo(childKey))]
             w1 == decode(d, w0, f, childKey,
                          getValidators(d.validators, Validators(f)),
                          ro \/ f.name \in UnexportedNames)
         IN IF Hidden(f, d.showConditions) THEN decodeFields(d, w, node, key, ro, i + 1)
            ELSE IF w1.status # "ok" THEN w1
            ELSE decodeFields(d, w1, node, key, ro, i + 1)

\* HTTPDecoder.decode; ro: the value was reached through an unexported field, so
\* CanInterface is false and a Set panics
decode(d, w, node, key, validators, ro) ==
    IF ~ro /\ node.kind \in {"FoodSelect", "BoolNumber"}
    THEN decodeCustom(d, w, node.kind, key, validators)
    ELSE IF ~ro /\ node.kind = "time" THEN decodeTime(d, w, key, validators)
    ELSE IF node.kind = "struct" THEN decodeFields(d, w, node, key, ro, 1)
    ELSE IF node.kind = "ptr" THEN
        LET path == DropTwo(key)
            w1 == IF ~w.nilp[path] THEN w
                  ELSE IF ro THEN Panic(w, key)
                  ELSE [w EXCEPT !.nilp[path] = FALSE]
        IN IF w1.status # "ok" THEN w1
           ELSE decode(d, w1, node.fields[1], key, validators, ro)
    ELSE decodeLeaf(d, w, node.kind, key, validators, ro)

\* json.Marshal of the record, as Store.SetFormValue saves it: the exported fields
Snapshot(w) ==
    [set |-> TRUE,
     vals |-> [p \in {q \in DOMAIN w.vals : q[1] \notin UnexportedNames} |-> w.vals[p]],
     nilp |-> [p \in {q \in DOMAIN w.nilp : q[1] \notin UnexportedNames} |-> w.nilp[p]]]

\* customDecoderTest.DecodeFormValue: the numbers posted under CustomValue
RECURSIVE customDecoderTest(_, _)
customDecoderTest(values, i) ==
    IF i > Len(values) THEN [err |-> FALSE, v |-> <<>>]
    ELSE LET p == ParseInt(values[i])
             rest == customDecoderTest(values, i + 1)
         IN IF p.err \/ rest.err THEN [err |-> TRUE, v |-> <<>>]
            ELSE [err |-> FALSE, v |-> <<p.v>> \o rest.v]

CustomValue == [prefix |-> "", path |-> <<"CustomValue">>]

\* HTTPDecoder.Decode on a CustomDecoder: it decodes itself from the form, its
\* error is returned, its value is assigned and nil is returned
DecodeCustomArg(d, w) ==
    LET r == customDecoderTest(IF CustomValue \in DOMAIN d.form
                               THEN d.form[CustomValue] ELSE <<>>, 1)
    IN IF r.err THEN Fail(w, <<>>)
       ELSE [SetValue(w, <<>>, FALSE, r.v) EXCEPT !.status = "returned"]

\* a Decode that returns an error for an argument it cannot decode into
DecodeArgChecked(d, a, w) ==
    IF IsPtr(a) /\ IsCustomDecoder(a) /\ ~IsNil(a) THEN DecodeCustomArg(d, w)
    ELSE IF a \notin {"&YourDetails", "&test", "&sized"} THEN Fail(w, <<>>)
    ELSE decode(d, w, StructOf(a), TypeNameOf(a), <<>>, FALSE)

\* HTTPDecoder.Decode, before the walk: the argument must be a pointer; a
\* CustomDecoder decodes itself and Decode returns (calling the method of
\* customDecoderTest, whose receiver is a value, through a nil pointer panics);
\* anything else must point to a struct, which is walked
DecodeArg(d, a, w) ==
    IF ~IsPtr(a) THEN Panic(w, <<>>)
    ELSE IF IsCustomDecoder(a)
    THEN IF IsNil(a) THEN Panic(w, <<>>) ELSE DecodeCustomArg(d, w)
    ELSE IF a \notin {"&YourDetails", "&test", "&sized"} THEN Panic(w, <<>>)
    ELSE decode(d, w, StructOf(a), TypeNameOf(a), <<>>, FALSE)

\* Store.SetFormValue
SetFormValue(st, w) ==
    IF "SetFormValue" \in st.fails THEN [st |-> st, err |-> TRUE]
    ELSE [st |-> [st EXCEPT !.value = Snapshot(w)], err |-> FALSE]

\* HTTPDecoder.Decode, after the walk: the failure counter is tested and the record
\* is saved
AfterWalk(w) ==
    IF w.status = "ok" /\ w.num > 0
    THEN IF "SetFormValue" \in w.fails THEN StoreFail(Called(w, "SetFormValue"), "SetFormValue")
         ELSE Called(w, "SetFormValue")
    ELSE w

\* HTTPDecoder.Decode: what is returned
DecodeResult(w) ==
    CASE w.status = "panic" -> "panic"
      [] w.status = "error" -> "error"
      [] w.status = "ok" /\ w.num > 0 -> "ErrFormFailedValidation"
      [] OTHER -> "nil"

(***************************************************************************)
(* HTMLEncoder (src/encode.go).  The rendered document is the sequence of  *)
(* the form controls built, in document order.                             *)
(***************************************************************************)
\* strconv.FormatInt(i, 10) and strconv.FormatUint(i, 10)
FormatInt(i) ==
    CASE i = 0 -> "0" [] i = 1 -> "1" [] i = 2 -> "2" [] i = 7 -> "7" [] i = 25 -> "25"
      [] i = 40 -> "40" [] i = 0 - 5 -> "-5"
      [] i = 44 -> "44" [] i = 127 -> "127" [] i = 0 - 128 -> "-128" [] i = 255 -> "255"
      [] i = 300 -> "300" [] i = 0 - 32768 -> "-32768"

\* strconv.FormatFloat(f, 'f', -1, 64), f in tenths
FormatFloat(f) == CASE f = 0 -> "0" [] f = 15 -> "1.5" [] f = 250 -> "25"

\* time.Time.Format(timeFormat): the wall clock to the minute, no seconds, no zone
FormatTime(t) == CASE t.min = 0 -> "0001-01-01T00:00" [] t.min = 1 -> "2020-05-28T15:28"

\* toString of an interface{} holding a number, a string or a named string type
toString(tv) == IF tv.t = "int" THEN FormatInt(tv.v) ELSE tv.v

\* Option{Value, Disabled}; Checked is nil
Option(value, disabled) ==
    [Value |-> TV("string", value), Disabled |-> disabled, Checked |-> "nil"]

\* Pet.SelectOptions
PetOptions ==
    << Option("dog", FALSE), Option("cat", FALSE), Option("hamster", TRUE),
       Option("ferret", FALSE) >>

\* ContactMethod.RadioOptions
ContactMethodOptions ==
    << Option("phone", FALSE), Option("email", FALSE), Option("post", FALSE),
       Option("carrier_pigeon", TRUE) >>

\* FoodSelect.SelectOptions
FoodOptions ==
    << Option("burger", FALSE), Option("pizza", FALSE), Option("beans", FALSE),
       Option("banana", FALSE) >>

\* numberIndexedSelect.SelectOptions
NumberOptions ==
    << [Value |-> TV("int", 0), Disabled |-> FALSE, Checked |-> "nil"],
       [Value |-> TV("int", 1), Disabled |-> FALSE, Checked |-> "nil"],
       [Value |-> TV("int", 2), Disabled |-> FALSE, Checked |-> "nil"] >>

\* the options of a select that sets Checked itself: NewCondition(true) on burger,
\* NewCondition(false) on pizza, nothing on beans
PinnedOptions ==
    << [Value |-> TV("string", "burger"), Disabled |-> FALSE, Checked |-> "true"],
       [Value |-> TV("string", "pizza"), Disabled |-> FALSE, Checked |-> "false"],
       [Value |-> TV("string", "beans"), Disabled |-> FALSE, Checked |-> "nil"] >>

\* Select.SelectOptions of each select type
SelectOptions(type) ==
    CASE type = "Pet" -> PetOptions
      [] type = "FoodSelect" -> FoodOptions
      [] type = "numberIndexedSelect" -> NumberOptions
      [] type = "PinnedSelect" -> PinnedOptions

\* the type of the elements of a multi-select
ElemType(type) == IF type = "numberIndexedSelect" THEN "int" ELSE "string"

\* a selection rule that compares the elements with the option values themselves
SelectedByValue(type, v, opt) ==
    IF opt.Checked = "nil"
    THEN IF type = "Pet" THEN TV("string", v) = opt.Value
         ELSE \E j \in 1..Len(v) : TV("string", v[j]) = opt.Value
    ELSE opt.Checked = "true"

\* BuildSelectField, the selected attribute: without a Checked on the option it is
\* selected when its value prints like the field's value (or like one of its
\* elements, for a slice); a Checked on the option decides alone
Selected(type, v, opt) ==
    IF opt.Checked = "nil"
    THEN IF type = "Pet" THEN toString(TV(type, v)) = toString(opt.Value)
         ELSE \E j \in 1..Len(v) : toString(TV(ElemType(type), v[j])) = toString(opt.Value)
    ELSE opt.Checked = "true"

\* BuildSelectField
BuildSelectField(type, v) ==
    LET opts == SelectOptions(type)
    IN [opts |-> [i \in 1..Len(opts) |->
                    [value |-> toString(opts[i].Value), disabled |-> opts[i].Disabled,
                     checked |-> Selected(type, v, opts[i])]],
        multiple |-> (type # "Pet")]

\* BuildRadioButtons: checked = opt.Value == r, an equality of interface values,
\* which holds only for equal dynamic types
BuildRadioButtons(type, v) ==
    [opts |-> [i \in 1..Len(ContactMethodOptions) |->
                 [value |-> toString(ContactMethodOptions[i].Value),
                  disabled |-> ContactMethodOptions[i].Disabled,
                  checked |-> (ContactMethodOptions[i].Value = TV(type, v))]],
     multiple |-> FALSE]

\* json.Encoder.Encode of a map
EncodeJSON(v) == IF v = "nil" THEN "null" ELSE v

\* BuildField: the control for one value, with the field's validation errors
BuildField(e, ew, type, path, name, field, v) ==
    LET base == [path |-> path, name |-> name, errors |-> field.ValidationErrors,
                 value |-> "", checked |-> FALSE, opts |-> <<>>, multiple |-> FALSE]
        control ==
          CASE type = "time" -> [base EXCEPT !.value = FormatTime(v)] @@ [input |-> "datetime-local"]
            [] type \in {"Pet", "FoodSelect", "numberIndexedSelect", "PinnedSelect"} ->
                 LET b == BuildSelectField(type, v)
                 IN [base EXCEPT !.opts = b.opts, !.multiple = b.multiple] @@ [input |-> "select"]
            [] type = "ContactMethod" ->
                 [base EXCEPT !.opts = BuildRadioButtons(type, v).opts] @@ [input |-> "radio"]
            [] type = "map" -> [base EXCEPT !.value = EncodeJSON(v)] @@ [input |-> "textarea"]
            [] Kind(type) \in {"int", "uint"} ->
                 [base EXCEPT !.value = FormatInt(v)] @@ [input |-> "number"]
            [] type = "float" -> [base EXCEPT !.value = FormatFloat(v)] @@ [input |-> "number"]
            [] type = "string" -> [base EXCEPT !.value = v] @@ [input |-> "text"]
            [] type = "bool" -> [base EXCEPT !.checked = v] @@ [input |-> "checkbox"]
            [] type = "BoolNumber" -> [base EXCEPT !.checked = (v = 1)] @@ [input |-> "checkbox"]
    IN IF Hidden(field, e.showConditions) THEN ew
       ELSE [ew EXCEPT !.elements = Append(@, control), !.children = @ + 1]

\* reflect.StructField.IsExported
IsExported(field) == field.name \notin UnexportedNames

\* StructField.BuildFieldset: the first of "contents" and "fieldset" in the show
\* tag decides, and without them every struct that is not embedded gets a fieldset;
\* no struct of the records here is embedded
BuildFieldset(field) ==
    LET hits == {i \in 1..Len(field.show) : field.show[i] \in {"contents", "fieldset"}}
    IN IF hits = {} THEN TRUE
       ELSE field.show[CHOOSE i \in hits : \A j \in hits : i <= j] = "fieldset"

\* StructField.GetName, without a name tag: the field's name
GetName(field) == field.name

\* a struct case that builds the fieldset, or moves the children, whether or not
\* anything was built into the container
moveContainerAlways(ew, parent, key, field) ==
    IF BuildFieldset(field)
    THEN [ew EXCEPT !.children = parent + 1,
                    !.fieldsets = Append(@, [path |-> DropTwo(key),
                                             legend |-> (GetName(field) # ""),
                                             children |-> ew.children])]
    ELSE [ew EXCEPT !.children = parent + ew.children]

\* HTMLEncoder.recurse, case reflect.Struct, after the loop: ew.children nodes were
\* built into the container, and parent nodes are under the parent; if the container
\* has a child, its children are moved into a new fieldset under the parent
\* (buildFieldSet: with a legend if the field has a name), or to the parent itself
moveContainer(ew, parent, key, field) ==
    IF ew.children # 0
    THEN IF BuildFieldset(field)
         THEN [ew EXCEPT !.children = parent + 1,
                         !.fieldsets = Append(@, [path |-> DropTwo(key),
                                                  legend |-> (GetName(field) # ""),
                                                  children |-> ew.children])]
         ELSE [ew EXCEPT !.children = parent + ew.children]
    ELSE [ew EXCEPT !.children = parent]

RECURSIVE recurse(_, _, _, _, _, _)
RECURSIVE recurseFields(_, _, _, _, _, _)

\* HTMLEncoder.recurse, case reflect.Struct: the loop over the fields
recurseFields(e, st, ew, node, key, i) ==
    IF i > Len(node.fields) THEN ew
    ELSE LET f == node.fields[i]
             nextKey == Append(key, f.name)
             validationErrors == GetValidationErrors(st.errors,
                                     FormElementName(e.elementNamePrefix, nextKey))
             ew0 == [Called(ew, "GetValidationErrors") EXCEPT !.errkeys = Append(@,
                        [path |-> DropTwo(nextKey),
                         key |-> FormElementName(e.elementNamePrefix, nextKey)])]
             ew1 == recurse(e, st, ew0, f, nextKey,
                            [name |-> f.name, show |-> f.show,
                             ValidationErrors |-> validationErrors])
         IN IF "GetValidationErrors" \in st.fails
            THEN StoreFail(Called(ew, "GetValidationErrors"), "GetValidationErrors")
            ELSE IF ew1.status # "ok" THEN ew1
            ELSE recurseFields(e, st, ew1, node, key, i + 1)

\* HTMLEncoder.recurse; a nil pointer is set to a new value when it can be (CanAddr),
\* and followed to the zero Value, on which CanInterface panics, when it cannot
recurse(e, st, ew, node, key, field) ==
    LET build == BuildField(e, ew, node.kind, DropTwo(key),
                            FormElementName(e.elementNamePrefix, key), field,
                            ew.vals[DropTwo(key)])
    IN IF ~IsExported(field) THEN ew
       ELSE CASE node.kind \in {"time", "Pet", "ContactMethod", "FoodSelect"} -> build
              [] node.kind = "ptr" ->
                   IF ew.nilp[DropTwo(key)] /\ ~ew.addr THEN Panic(ew, key)
                   ELSE recurse(e, st, [ew EXCEPT !.nilp[DropTwo(key)] = FALSE],
                                node.fields[1], key, field)
              [] node.kind = "struct" ->
                   IF Hidden(field, e.showConditions) THEN ew
                   ELSE LET container == recurseFields(e, st, [ew EXCEPT !.children = 0],
                                                       node, key, 1)
                        IN IF container.status # "ok" THEN container
                           ELSE moveContainer(container, ew.children, key, field)
              [] node.kind = "map" -> build
              [] OTHER -> build

\* json.Unmarshal of the saved form value into the record
readFormValue(r, value) ==
    [vals |-> [p \in DOMAIN r.vals |->
                 IF p \in DOMAIN value.vals THEN value.vals[p] ELSE r.vals[p]],
     nilp |-> [p \in DOMAIN r.nilp |->
                 IF p \in DOMAIN value.nilp THEN value.nilp[p] ELSE r.nilp[p]]]

\* a GetFormValue without the deferred delete
GetFormValueKeep(st, r, a) ==
    IF ~st.value.set THEN [st |-> st, err |-> TRUE, r |-> r]
    ELSE IF "GetFormValue" \in st.fails \/ a \notin {"&YourDetails", "&test", "&sized"}
    THEN [st |-> st, err |-> TRUE, r |-> r]
    ELSE [st |-> st, err |-> FALSE, r |-> readFormValue(r, st.value)]

\* Store.GetFormValue(out), out being the argument a holding r: ErrInvalidValue when
\* the session has no snapshot; the snapshot is read into a non-nil struct pointer
\* (anything else is an error of json.Decode); the deferred delete removes the
\* snapshot from the session whatever happened
GetFormValue(st, r, a) ==
    IF ~st.value.set THEN [st |-> st, err |-> TRUE, r |-> r]
    ELSE IF "GetFormValue" \in st.fails \/ a \notin {"&YourDetails", "&test", "&sized"}
    THEN [st |-> [st EXCEPT !.value = NoValue], err |-> TRUE, r |-> r]
    ELSE [st |-> [st EXCEPT !.value = NoValue], err |-> FALSE,
          r |-> readFormValue(r, st.value)]

\* StructField{}: what Encode passes for the record itself
RootField == [name |-> "", show |-> NoTag, ValidationErrors |-> <<>>]

\* the walk of Encode begins: r is what GetFormValue left in the argument
StartEncode(r, st, a) ==
    [vals |-> r.vals, nilp |-> r.nilp, elements |-> <<>>, errkeys |-> <<>>,
     children |-> 0, fieldsets |-> <<>>, status |-> "ok", err |-> <<>>, storeErr |-> "none", fails |-> st.fails,
     sops |-> <<>>, addr |-> IsPtr(a)]

\* HTMLEncoder.Encode, from the kind test on: a pointer must point to a struct and
\* anything else must be a struct, or errorIncorrectValue(v.Type()) is returned, and
\* v.Type() panics on the zero Value that reflect.ValueOf(nil) is; then the walk
EncodeArg(e, st, a, ew) ==
    IF a = "nil" THEN Panic(ew, <<>>)
    ELSE IF a \in {"YourDetails", "&YourDetails", "&test", "&sized"}
    THEN recurse(e, st, ew, StructOf(a), TypeNameOf(a), RootField)
    ELSE Fail(ew, <<>>)

\* values a browser may post under each field's path
Posted ==
    [p \in LeafPaths |->
       CASE p = <<"CountryCode">> -> {"GBR", "uk"}
         [] p = <<"Age">> -> {"25", "7", "abc"}
         [] p = <<"Type">> -> {"7", "-5"}
         [] p = <<"FavouriteNumber">> -> {"1.5", "abc"}
         [] p = <<"Checkbox">> -> {"on", "1", "x"}
         [] p = <<"Time">> -> {"2020-05-28T15:28", "28/05/2020"}
         [] p = <<"TestMap">> -> {"{}", "{bad"}
         [] p = <<"FavouriteFoods">> -> {"pizza"}
         [] p = <<"IgnoredField">> -> {"Content"}
         [] p = <<"AddressLine2">> -> {"Flat 2"}
         [] p = <<"Address", "Country">> -> {"UK"}
         [] p = <<"unexportedField">> -> {"secret"}
         [] OTHER -> {}]

RECURSIVE FormsOver(_)
\* every url.Values whose keys are the element names of the paths in S
FormsOver(S) ==
    IF S = {} THEN { <<>> }
    ELSE LET p == CHOOSE q \in S : TRUE
         IN { (ElementName("", p) :> <<v>>) @@ f : v \in Posted[p], f \in FormsOver(S \ {p}) }

PostedPaths == {p \in LeafPaths : Posted[p] # {}}

\* the forms of at most MaxPosted keys
Forms == UNION { FormsOver(S) : S \in {T \in SUBSET PostedPaths : Cardinality(T) <= MaxPosted} }

ShowNames == {"visible", "invisible"}
Registries == UNION { [S -> BOOLEAN] : S \in SUBSET ShowNames }

\* the records a caller hands in: the zero record and one with fields already set
ZeroVals == [p \in LeafPaths |->
    ZeroValue(CASE p = <<"Age">> -> "int" [] p = <<"Type">> -> "uint"
                [] p = <<"FavouriteNumber">> -> "float" [] p = <<"Checkbox">> -> "bool"
                [] p = <<"Time">> -> "time" [] p = <<"TestMap">> -> "map"
                [] p = <<"FavouriteFoods">> -> "FoodSelect" [] OTHER -> "string")]
PresetVals ==
    [ZeroVals EXCEPT ![<<"Age">>] = 40, ![<<"CountryCode">>] = "FRA",
                     ![<<"Checkbox">>] = TRUE, ![<<"IgnoredField">>] = "keep",
                     ![<<"AddressLine2">>] = "Old", ![<<"Address", "Country">>] = "DE",
                     ![<<"TestMap">>] = "{\"Foo\":\"Banana\"}",
                     ![<<"Time">>] = [min |-> 1, sec |-> 30, loc |-> "Local"],
                     ![<<"unexportedField">>] = "mine"]
Records ==
    { [vals |-> ZeroVals, nilp |-> [p \in PtrPaths |-> TRUE]],
      [vals |-> PresetVals, nilp |-> [p \in PtrPaths |-> FALSE]] }

\* NewDecoder(form)
NewDecoder(form) ==
    [form |-> form, showConditions |-> <<>>, validators |-> {},
     setValueOnValidationError |-> FALSE, numValidationErrors |-> 0]

\* NewEncoder
\* n: the controls under the encoder's root node, in document order
NewEncoder == [showConditions |-> <<>>, elementNamePrefix |-> "", n |-> <<>>]

\* NewDecoder(form) and NewEncoder, then the caller's configuration calls:
\* AddShowCondition on both, AddValidators and SetValueOnValidationError
Init ==
    /\ rec \in Records
    /\ \E form \in Forms, conds \in Registries, b \in BOOLEAN :
          /\ dec = [NewDecoder(form) EXCEPT !.showConditions = conds,
                                             !.validators = ValidatorNames,
                                             !.setValueOnValidationError = b]
          /\ enc = [NewEncoder EXCEPT !.showConditions = conds]
    /\ store = EmptyStore
    /\ last = [op |-> "none"]
    /\ nops = 0
    /\ arg = "&YourDetails"
    /\ dom = NoTree

\* HTTPDecoder.Decode(arg)
Decode ==
    /\ nops < MaxOps
    /\ \E w \in {AfterWalk(DecodeArg(dec, arg,
                                     StartWalk(rec, store, dec.numValidationErrors)))} :
       LET result == DecodeResult(w)
       IN /\ rec' = [vals |-> w.vals, nilp |-> w.nilp]
          /\ dec' = [dec EXCEPT !.numValidationErrors = w.num]
          /\ store' = [(IF result = "ErrFormFailedValidation"
                        THEN SetFormValue(store, w).st ELSE store)
                          EXCEPT !.errors = w.errors]
          /\ last' = [op |-> "Decode", result |-> result, err |-> w.err,
                      pre |-> rec, preErrors |-> store.errors,
                      preNum |-> dec.numValidationErrors,
                      saved |-> (result = "ErrFormFailedValidation"),
                      sent |-> IF last.op = "Submit" THEN last.sent ELSE NoValue,
                      visited |-> w.visited, lookups |-> w.lookups,
                      calls |-> w.calls, assigned |-> w.assigned,
                      sops |-> w.sops, storeErr |-> w.storeErr,
                      preValue |-> store.value]
    /\ nops' = nops + 1
    /\ UNCHANGED <<enc, arg, dom>>

\* what Encode returns: the error of the walk, or else that of the deferred clearing
EncodeResult(ew, cleared) ==
    CASE ew.status = "panic" -> "panic"
      [] ew.status = "error" -> "error"
      [] cleared.err -> "error"
      [] OTHER -> "nil"

\* HTMLEncoder.Encode(arg): the saved form value replaces the record's, the form is
\* built under the encoder's root node h.n, which is what html.Render writes, and the
\* validation store is cleared.  elements are the controls this call built, output
\* the controls in what it wrote.
Encode ==
    /\ nops < MaxOps
    /\ \E g \in {GetFormValue(store, rec, arg)} :
       \E ew \in {EncodeArg(enc, g.st, arg,
                            CalledWith(StartEncode(g.r, g.st, arg), "GetFormValue", g.err))} :
       \E cleared \in {EncodeDeferred(g.st, ew.status # "ok")} :
          /\ rec' = IF IsPtr(arg) THEN [vals |-> ew.vals, nilp |-> ew.nilp] ELSE rec
          /\ store' = cleared.st
          /\ last' = [op |-> "Encode", result |-> EncodeResult(ew, cleared),
                      pre |-> rec, rendered |-> g.r,
                      preErrors |-> store.errors, preValue |-> store.value,
                      prev |-> IF last.op = "Encode"
                               THEN [op |-> "Encode", hadValue |-> last.preValue.set,
                                     cleared |-> ~last.sops[Len(last.sops)].failed]
                               ELSE [op |-> last.op],
                      elements |-> ew.elements, errkeys |-> ew.errkeys,
                      fieldsets |-> ew.fieldsets, nodes |-> ew.children,
                      written |-> (ew.status = "ok"),
                      output |-> IF ew.status = "ok" THEN enc.n \o ew.elements ELSE <<>>,
                      sops |-> Append(ew.sops, [op |-> "ClearValidationErrors",
                                                failed |-> cleared.err]),
                      storeErr |-> IF ew.status = "ok" /\ cleared.err
                                   THEN "ClearValidationErrors" ELSE ew.storeErr]
          /\ enc' = [enc EXCEPT !.n = IF ew.status = "ok" THEN @ \o ew.elements ELSE @]
    /\ nops' = nops + 1
    /\ UNCHANGED <<dec, arg, dom>>

\* AddShowCondition(key, fn) on the decoder and on the encoder, between two calls
AddShowCondition(key, shown) ==
    /\ last.op \in {"Decode", "Encode"}
    /\ nops < MaxOps
    /\ dec' = [dec EXCEPT !.showConditions = (key :> shown) @@ @]
    /\ enc' = [enc EXCEPT !.showConditions = (key :> shown) @@ @]
    /\ last' = [op |-> "AddShowCondition"]
    /\ UNCHANGED <<rec, store, nops, arg, dom>>

Next ==
    \/ Decode
    \/ Encode
    \/ \E key \in ShowNames, shown \in BOOLEAN : AddShowCondition(key, shown)

Spec == Init /\ [][Next]_vars

(***************************************************************************)
(* The round trip: a record is rendered, a browser posts the rendered      *)
(* form, and the post is decoded into a fresh record.                      *)
(***************************************************************************)
\* what a browser posts for one control
Posts(el) ==
    LET on == SelectSeq(el.opts, LAMBDA o : o.checked /\ ~o.disabled)
        enabled == SelectSeq(el.opts, LAMBDA o : ~o.disabled)
        vals == [i \in 1..Len(on) |-> on[i].value]
    IN CASE el.input = "checkbox" -> IF el.checked THEN <<"on">> ELSE <<>>
         [] el.input = "radio" -> IF Len(on) > 0 THEN <<vals[1]>> ELSE <<>>
         [] el.input = "select" /\ el.multiple -> vals
         [] el.input = "select" /\ ~el.multiple ->
              IF Len(on) > 0 THEN <<vals[Len(vals)]>>
              ELSE IF \E i \in 1..Len(el.opts) : el.opts[i].checked THEN <<>>
              ELSE IF Len(enabled) > 0 THEN <<enabled[1].value>> ELSE <<>>
         [] OTHER -> <<el.value>>

\* the form a browser posts for a rendered document
PostedForm(elements) ==
    LET names == {elements[i].name : i \in 1..Len(elements)}
        sent == {n \in names : \E i \in 1..Len(elements) :
                    elements[i].name = n /\ Len(Posts(elements[i])) > 0}
    IN [n \in sent |-> Posts(elements[CHOOSE i \in 1..Len(elements) : elements[i].name = n])]

ZeroRecord == [vals |-> ZeroVals, nilp |-> [p \in PtrPaths |-> TRUE]]

\* the browser posts the form just rendered; NewDecoder(form) is called on the post
\* and a fresh record is made to decode into
Submit ==
    /\ last.op = "Encode"
    /\ dec' = NewDecoder(PostedForm(last.elements))
    /\ rec' = ZeroRecord
    /\ last' = [op |-> "Submit", sent |-> [set |-> TRUE, vals |-> last.rendered.vals]]
    /\ UNCHANGED <<enc, store, nops, arg, dom>>

\* the records of the round trip: a value of each primitive kind
RoundTripRecords ==
    { [vals |-> [ZeroVals EXCEPT ![<<"CountryCode">>] = s, ![<<"Age">>] = i,
                                 ![<<"FavouriteNumber">>] = f, ![<<"Checkbox">>] = b,
                                 ![<<"Time">>] = t, ![<<"Pet">>] = pet,
                                 ![<<"ContactMethod">>] = c],
       nilp |-> [p \in PtrPaths |-> TRUE]] :
        s \in {"", "GBR"}, i \in {0, 25, 0 - 5}, f \in {0, 15}, b \in BOOLEAN,
        t \in {ZeroTime, [min |-> 1, sec |-> 0, loc |-> "UTC"],
               [min |-> 1, sec |-> 30, loc |-> "UTC"],
               [min |-> 1, sec |-> 0, loc |-> "Local"]},
        pet \in {"dog", "ferret", "hamster", ""}, c \in {"", "phone"} }

Prefixes == {"", "p_"}

InitRoundTrip ==
    /\ rec \in RoundTripRecords
    /\ dec = NewDecoder(<<>>)
    /\ \E prefix \in Prefixes : enc = [NewEncoder EXCEPT !.elementNamePrefix = prefix]
    /\ store = EmptyStore
    /\ last = [op |-> "none"]
    /\ nops = 0
    /\ arg = "&YourDetails"
    /\ dom = NoTree

NextRoundTrip == Encode \/ Submit \/ Decode

SpecRoundTrip == InitRoundTrip /\ [][NextRoundTrip]_vars

(***************************************************************************)
(* The validate-then-redisplay cycle of a handler.  The session store may  *)
(* hold what a failed Decode of an earlier request left in it, and some of *)
(* its operations may be failing.  A handler calls Decode and Encode, or   *)
(* Formulate, which does both on a store of its own.                       *)
(***************************************************************************)
\* the fields the handlers' forms post
HandlerPosted ==
    (<<"CountryCode">> :> {"GBR", "uk"}) @@ (<<"Age">> :> {"25", "7", "abc"})
       @@ (<<"AddressLine2">> :> {"Flat 2"})

RECURSIVE HandlerFormsOver(_)
HandlerFormsOver(S) ==
    IF S = {} THEN { <<>> }
    ELSE LET p == CHOOSE q \in S : TRUE
         IN { (ElementName("", p) :> <<v>>) @@ f :
                 v \in HandlerPosted[p], f \in HandlerFormsOver(S \ {p}) }

HandlerForms ==
    UNION { HandlerFormsOver(S) :
               S \in {T \in SUBSET DOMAIN HandlerPosted : Cardinality(T) <= MaxPosted} }

\* the session after the Decode of an earlier request rejected CountryCode=uk
LeftByFailedDecode ==
    LET form == (ElementName("", <<"CountryCode">>) :> <<"uk">>)
                   @@ (ElementName("", <<"Age">>) :> <<"25">>)
        d == [form |-> form, showConditions |-> <<>>, validators |-> ValidatorNames,
              setValueOnValidationError |-> TRUE, numValidationErrors |-> 0]
        w == decode(d, StartWalk([vals |-> ZeroVals, nilp |-> [p \in PtrPaths |-> TRUE]],
                                 EmptyStore, 0),
                    YourDetails, TypeName, <<>>, FALSE)
    IN [errors |-> w.errors, value |-> Snapshot(w), fails |-> {}]

\* the operations of the store that are failing
Faults ==
    { {} } \cup { {op} : op \in StoreOps }
       \cup { {"GetValidationErrors", "ClearValidationErrors"} }

InitHandler ==
    /\ rec \in Records
    /\ \E form \in HandlerForms :
          dec = [NewDecoder(form) EXCEPT !.validators = ValidatorNames]
    /\ \E prefix \in Prefixes : enc = [NewEncoder EXCEPT !.elementNamePrefix = prefix]
    /\ \E st \in {EmptyStore, LeftByFailedDecode}, fails \in Faults :
          store = [st EXCEPT !.fails = fails]
    /\ last = [op |-> "none"]
    /\ nops = 0
    /\ arg = "&YourDetails"
    /\ dom = NoTree

\* NewMemoryValidationStore()
NewMemoryValidationStore == EmptyStore

\* Formulate(r, &rec, encoderBuilder, decoderBuilder): the builders make a decoder
\* and an encoder configured as dec and enc are
Formulate(method, parses) ==
    /\ nops < MaxOps
    /\ method = "POST" \/ parses
    /\ LET validationStore == NewMemoryValidationStore
           post == (method = "POST")
           decoder == [dec EXCEPT !.numValidationErrors = 0]
       IN \E w \in {IF post /\ parses
                     THEN AfterWalk(DecodeArg(decoder, arg, StartWalk(rec, validationStore, 0)))
                     ELSE StartWalk(rec, validationStore, 0)} :
          LET decoded == post /\ parses
              err == IF decoded THEN DecodeResult(w) ELSE "nil"
              passed == decoded /\ err = "nil"
              st1 == [(IF err = "ErrFormFailedValidation"
                       THEN SetFormValue(validationStore, w).st ELSE validationStore)
                         EXCEPT !.errors = w.errors]
              r1 == [vals |-> w.vals, nilp |-> w.nilp]
              returns == (post /\ ~parses) \/ err \in {"error", "panic"}
          IN \E g \in {GetFormValue(st1, r1, arg)} :
             \E ew \in {EncodeArg(enc, g.st, arg,
                                  CalledWith(StartEncode(g.r, g.st, arg),
                                             "GetFormValue", g.err))} :
             \E cleared \in {EncodeDeferred(g.st, ew.status # "ok")} :
                /\ rec' = IF returns THEN r1 ELSE [vals |-> ew.vals, nilp |-> ew.nilp]
                /\ last' = [op |-> "Formulate", method |-> method, parses |-> parses,
                            decoded |-> decoded, decodeResult |-> err,
                            encoded |-> ~returns,
                            passedValidation |-> passed,
                            result |-> CASE post /\ ~parses -> "error"
                                         [] returns -> err
                                         [] OTHER -> EncodeResult(ew, cleared),
                            encodedForm |-> IF returns \/ EncodeResult(ew, cleared) # "nil"
                                            THEN <<>> ELSE ew.elements,
                            stored |-> w.errors, calls |-> w.calls,
                            pre |-> rec, preStore |-> store]
    /\ nops' = nops + 1
    /\ UNCHANGED <<dec, enc, store, arg, dom>>

NextHandler ==
    \/ Decode
    \/ Encode
    \/ \E method \in {"GET", "POST"}, parses \in BOOLEAN : Formulate(method, parses)

SpecHandler == InitHandler /\ [][NextHandler]_vars

(***************************************************************************)
(* Decode and Encode on every kind of argument.                            *)
(***************************************************************************)
\* a variable that is no struct, holding v
Scalar(v) == [vals |-> (<<>> :> v), nilp |-> <<>>]

\* no variable: nil, or a nil pointer
NoVariable == [vals |-> <<>>, nilp |-> <<>>]

RECURSIVE Selections(_)
\* the selections of some of the values, in their order
Selections(values) ==
    IF values = <<>> THEN { <<>> }
    ELSE { r : r \in Selections(Tail(values)) }
            \cup { <<Head(values)>> \o r : r \in Selections(Tail(values)) }

SelectRecord(food, number, pinned, checkbox, subscribed) ==
    [vals |-> (<<"Food">> :> food) @@ (<<"Number">> :> number) @@ (<<"Pinned">> :> pinned)
                 @@ (<<"Checkbox">> :> checkbox) @@ (<<"Subscribed">> :> subscribed),
     nilp |-> <<>>]

\* the values of the multi-select test's struct: every selection of the options, a
\* selection out of order and one of no option
SelectRecords ==
    { SelectRecord(food, number, pinned, FALSE, bn) :
         food \in Selections(<<"burger", "pizza", "beans", "banana">>)
                    \cup { <<"pizza", "burger">>, <<"chips">> },
         number \in Selections(<<0, 1, 2>>),
         pinned \in { <<>>, <<"pizza", "beans">> },
         bn \in {0, 1} }

\* what is posted for the struct of the multi-select test: each key, or not
SelectForms ==
    { [k \in {key \in DOMAIN f : f[key] # <<>>} |-> f[k]] :
         f \in [ {ElementName("", <<"Food">>), ElementName("", <<"Checkbox">>),
                   ElementName("", <<"Subscribed">>)}
                    -> { <<>>, <<"on">>, <<"1">>, <<"0">>, <<"burger", "beans">> } ] }

\* the integers posted for the struct Sized, in and out of the range of each field
SizedPosted ==
    (<<"Small">> :> {"7", "127", "128", "300", "-129"})
       @@ (<<"Byte">> :> {"255", "256", "-1"})
       @@ (<<"Short">> :> {"300", "32768"})
       @@ (<<"Long">> :> {"40", "9223372036854775808"})

\* the forms posted for it: for each field one of its values, or none
SizedForms ==
    { [k \in {ElementName("", p) : p \in {q \in SizedPaths : f[q] # ""}} |-> <<f[k.path]>>] :
         f \in { g \in [ SizedPaths -> {""} \cup UNION {SizedPosted[p] : p \in SizedPaths} ] :
                      \A p \in SizedPaths : g[p] \in {""} \cup SizedPosted[p] } }

\* what is posted under CustomValue
CustomForms ==
    { <<>> } \cup { (CustomValue :> v) : v \in { <<"1", "7">>, <<"1", "abc">>, <<"25">> } }

\* the variables an argument can stand for
Variables(a) ==
    CASE a \in {"&YourDetails", "YourDetails"} -> Records
      [] a \in {"nil", "(*YourDetails)(nil)", "(*customDecoderTest)(nil)"} -> { NoVariable }
      [] a \in {"int", "&int"} -> { Scalar(0), Scalar(7) }
      [] a = "&customDecoderTest" -> { Scalar(<<>>), Scalar(<<40>>) }
      [] a = "&test" -> SelectRecords \cup { SelectRecord(<<"beans">>, <<1>>, <<>>, TRUE, 1) }
      [] a = "&sized" -> { [vals |-> [p \in SizedPaths |-> 0], nilp |-> <<>>],
                           [vals |-> [p \in SizedPaths |-> 7], nilp |-> <<>>] }

\* the forms posted for an argument and its variable
PostedFor(a, r) ==
    CASE a = "&customDecoderTest" -> CustomForms
      [] a = "&test" /\ r \in { SelectRecord(<<>>, <<>>, <<>>, FALSE, 0),
                                 SelectRecord(<<"beans">>, <<1>>, <<>>, TRUE, 1) } -> SelectForms
      [] a = "&sized" -> SizedForms
      [] OTHER -> { <<>> }

InitCalls ==
    /\ arg \in Args
    /\ rec \in Variables(arg)
    /\ \E form \in PostedFor(arg, rec) : dec = [NewDecoder(form) EXCEPT !.validators = ValidatorNames]
    /\ enc = NewEncoder
    /\ \E fails \in { {}, {"ClearValidationErrors"} } : store = [EmptyStore EXCEPT !.fails = fails]
    /\ last = [op |-> "none"]
    /\ nops = 0
    /\ dom = NoTree

NextCalls == Decode \/ Encode

SpecCalls == InitCalls /\ [][NextCalls]_vars

(***************************************************************************)
(* RenderHTMLToNode (src/html.go).  dom is the heap of html.Node values,   *)
(* by address; Nil is the nil pointer.  The parent is the node at Parent;  *)
(* the HTML text is given by the names of the elements it puts in the      *)
(* body, one after the other, and of the parsed document only the body and *)
(* its children are kept.  Nodes no longer reachable from the parent are   *)
(* dropped after the call.                                                 *)
(***************************************************************************)
Nil == 0

Parent == 1

\* &html.Node{Data: data}
Node(data) ==
    [Data |-> data, Parent |-> Nil, FirstChild |-> Nil, LastChild |-> Nil,
     PrevSibling |-> Nil, NextSibling |-> Nil]

\* n.AppendChild(c), for a c that has no parent and no siblings
AppendChild(h, n, c) ==
    LET lastChild == h[n].LastChild
        h1 == IF lastChild # Nil THEN [h EXCEPT ![lastChild].NextSibling = c]
              ELSE [h EXCEPT ![n].FirstChild = c]
    IN [h1 EXCEPT ![n].LastChild = c, ![c].Parent = n, ![c].PrevSibling = lastChild]

\* n.RemoveChild(c), for a child c of n: c is unlinked and its own links are set to nil
RemoveChild(h, n, c) ==
    LET h1 == IF h[n].FirstChild = c THEN [h EXCEPT ![n].FirstChild = h[c].NextSibling]
              ELSE h
        h2 == IF h[c].NextSibling # Nil
              THEN [h1 EXCEPT ![h[c].NextSibling].PrevSibling = h[c].PrevSibling] ELSE h1
        h3 == IF h[n].LastChild = c THEN [h2 EXCEPT ![n].LastChild = h[c].PrevSibling]
              ELSE h2
        h4 == IF h[c].PrevSibling # Nil
              THEN [h3 EXCEPT ![h[c].PrevSibling].NextSibling = h[c].NextSibling] ELSE h3
    IN [h4 EXCEPT ![c].Parent = Nil, ![c].PrevSibling = Nil, ![c].NextSibling = Nil]

RECURSIVE Children(_, _)
\* the nodes from c on, following NextSibling
Children(h, c) == IF c = Nil THEN <<>> ELSE <<c>> \o Children(h, h[c].NextSibling)

\* an address not in use
NewNode(h) == CHOOSE n \in 1..(Cardinality(DOMAIN h) + 1) : n \notin DOMAIN h

RECURSIVE AppendAll(_, _, _)
\* children named by data are made and appended to n
AppendAll(h, n, data) ==
    IF data = <<>> THEN h
    ELSE LET c == NewNode(h)
         IN AppendAll(AppendChild(h @@ (c :> Node(Head(data))), n, c), n, Tail(data))

\* getBody(html.Parse(data)): the body of the parsed document, in the heap
Parse(h, data) ==
    LET body == NewNode(h)
    IN [body |-> body, heap |-> AppendAll(h @@ (body :> Node("body")), body, data)]

RECURSIVE RemoveChildren(_, _, _)
\* for c := parent.FirstChild; c != nil; c = c.NextSibling { parent.RemoveChild(c) }
\* from c on: c.NextSibling is read after RemoveChild has run
RemoveChildren(h, n, c) ==
    IF c = Nil THEN h
    ELSE LET h1 == RemoveChild(h, n, c) IN RemoveChildren(h1, n, h1[c].NextSibling)

RECURSIVE moveNodeChildrenFrom(_, _, _, _)
\* the loop of moveNodeChildren from c on: the next sibling is read before x is moved
moveNodeChildrenFrom(h, from, to, c) ==
    IF c = Nil THEN h
    ELSE LET x == c
             next == h[c].NextSibling
         IN moveNodeChildrenFrom(AppendChild(RemoveChild(h, from, x), to, x), from, to, next)

moveNodeChildren(h, from, to) == moveNodeChildrenFrom(h, from, to, h[from].FirstChild)

\* the nodes the parent still reaches
Reachable(h) == [n \in {Parent} \cup Range(Children(h, h[Parent].FirstChild)) |-> h[n]]

\* the names of the elements an HTML text puts in its body
Elements == {"p", "div"}

Texts == UNION { [1..n -> Elements] : n \in 0..MaxChildren }

\* a parent that has the children named, made with AppendChild
ParentOf(data) == AppendAll((Parent :> Node("form")), Parent, data)

InitRender ==
    /\ \E data \in Texts : dom = ParentOf(data)
    /\ rec = NoVariable
    /\ dec = NewDecoder(<<>>)
    /\ enc = NewEncoder
    /\ store = EmptyStore
    /\ last = [op |-> "none"]
    /\ nops = 0
    /\ arg = "&YourDetails"

\* RenderHTMLToNode(data, parent): html.Parse reports only the errors of its reader,
\* and a strings.Reader has none
RenderHTMLToNode(data) ==
    /\ nops < MaxOps
    /\ LET parsed == Parse(dom, data)
           removed == RemoveChildren(parsed.heap, Parent, parsed.heap[Parent].FirstChild)
           moved == moveNodeChildren(removed, parsed.body, Parent)
       IN /\ dom' = Reachable(moved)
          /\ last' = [op |-> "RenderHTMLToNode", result |-> "nil", data |-> data,
                      before |-> Children(dom, dom[Parent].FirstChild),
                      body |-> Children(parsed.heap, parsed.heap[parsed.body].FirstChild)]
    /\ nops' = nops + 1
    /\ UNCHANGED <<rec, dec, enc, store, arg>>

NextRender == \E data \in Texts : RenderHTMLToNode(data)

SpecRender == InitRender /\ [][NextRender]_vars

(***************************************************************************)
(* Properties.  Each is stated about the call recorded in last.            *)
(***************************************************************************)
FieldNamed(node, name) == CHOOSE f \in Range(node.fields) : f.name = name

\* the struct fields passed on the way from the record to the leaf at path
FieldsOn(path) ==
    LET f1 == FieldNamed(YourDetails, path[1])
    IN IF Len(path) = 1 THEN <<f1>>
       ELSE IF f1.kind = "ptr" THEN <<f1, FieldNamed(f1.fields[1], path[2])>>
       ELSE <<f1, FieldNamed(f1, path[2])>>

LeafField(path) == FieldsOn(path)[Len(path)]

\* the posted-value key of a path: the dotted path, no type name, no prefix
PathKey(path) == [prefix |-> "", path |-> path]

IsPosted(path) == PathKey(path) \in DOMAIN dec.form

\* tagged show:"-", or naming a registered condition that returns false
TaggedHidden(field, conds) ==
    \/ field.show = <<"-">>
    \/ \E i \in 1..Len(field.show) : field.show[i] \in DOMAIN conds /\ ~conds[field.show[i]]

UnderHidden(path, conds) ==
    \E i \in 1..Len(path) : TaggedHidden(FieldsOn(path)[i], conds)

Completed == last.result \in {"nil", "ErrFormFailedValidation"}

Rejections == SelectSeq(last.calls, LAMBDA c : ~c.ok)

\* C1: a hidden field, or a field beneath a hidden struct, is not rendered by
\* Encode and keeps its value across Decode, whatever is posted and whatever the
\* show-condition registry holds.
C1_HiddenFieldInvariant ==
    /\ last.op = "Decode" =>
          \A p \in LeafPaths :
             UnderHidden(p, dec.showConditions) => rec.vals[p] = last.pre.vals[p]
    /\ last.op = "Encode" =>
          \A i \in 1..Len(last.elements) :
             ~UnderHidden(last.elements[i].path, enc.showConditions)

NoOpKinds == {"string", "int", "uint", "float", "bool", "map"}

\* C2: Decode leaves every string, integer, unsigned, float, boolean and
\* collection field whose key is not posted at the value it had before.
C2_AbsentKeysNoOp ==
    last.op = "Decode" =>
       \A p \in LeafPaths :
          (Kind(LeafField(p).kind) \in NoOpKinds /\ ~IsPosted(p))
             => rec.vals[p] = last.pre.vals[p]

\* C2, its case: a Decode that assigned a posted field and left Age, pre-set to 40
\* and not posted, at 40
C2_Witness ==
    /\ last.op = "Decode"
    /\ ~IsPosted(<<"Age">>)
    /\ last.pre.vals[<<"Age">>] = 40
    /\ Len(last.assigned) > 0
    /\ rec.vals[<<"Age">>] = 40

\* C3: Decode returns ErrFormFailedValidation exactly when its walk completed and
\* a validator rejected a value during it, SetFormValue is called in exactly that
\* case, and a completed walk without rejection returns nil.
C3_FailedValidationExactly ==
    last.op = "Decode" =>
       /\ (last.result = "ErrFormFailedValidation") <=> (Completed /\ Len(Rejections) > 0)
       /\ last.saved <=> (Completed /\ Len(Rejections) > 0)
       /\ (Completed /\ Len(Rejections) = 0) => last.result = "nil"

\* the entries a field's rejecting validators leave, in the order they were called
RejectionsOf(path) ==
    LET r == SelectSeq(Rejections, LAMBDA c : c.path = path)
    IN [i \in 1..Len(r) |-> [Error |-> Validate(r[i].validator, r[i].value).message,
                             Value |-> r[i].value]]

\* C4: after a Decode whose walk completed the store holds, for each field, one
\* entry per validator that rejected its value, in tag order, and nothing else, and
\* the failure counter is the number of rejections.
C4_FullAccumulation ==
    (last.op = "Decode" /\ Completed) =>
       /\ \A p \in LeafPaths :
             GetValidationErrors(store.errors, PathKey(p)) = RejectionsOf(p)
       /\ DOMAIN store.errors \subseteq {PathKey(p) : p \in LeafPaths}
       /\ dec.numValidationErrors = Len(Rejections)

\* C5: every value Decode assigns from the post was first handed to every
\* registered validator named on the field.
C5_ValidatedBeforeAssigned ==
    last.op = "Decode" =>
       \A j \in 1..Len(last.assigned) :
          LET a == last.assigned[j]
          IN IsPosted(a.path) =>
               \A k \in Range(getValidators(dec.validators, Validators(LeafField(a.path)))) :
                  \E i \in 1..Len(last.calls) :
                     /\ last.calls[i].path = a.path
                     /\ last.calls[i].validator = k
                     /\ last.calls[i].value.v = a.v
                     /\ last.calls[i].before <= j

RejectionRecorded(c) ==
    \E j \in 1..Len(GetValidationErrors(store.errors, PathKey(c.path))) :
       GetValidationErrors(store.errors, PathKey(c.path))[j].Value = c.value

\* C6, as first stated: a rejected value is kept out of the record unless
\* SetValueOnValidationError(true) was called, and in both cases the error is in
\* the store and Decode returns ErrFormFailedValidation.
C6_AsStated ==
    last.op = "Decode" =>
       \A i \in 1..Len(Rejections) :
          /\ RejectionRecorded(Rejections[i])
          /\ last.result = "ErrFormFailedValidation"
          /\ rec.vals[Rejections[i].path] =
                IF dec.setValueOnValidationError THEN Rejections[i].value.v
                ELSE last.pre.vals[Rejections[i].path]

\* C6: a rejected value is kept out of the record unless
\* SetValueOnValidationError(true) was called, in both cases the error is in the
\* store, and Decode returns ErrFormFailedValidation when its walk completes.
C6_FlagControlsAssignment ==
    last.op = "Decode" =>
       \A i \in 1..Len(Rejections) :
          /\ RejectionRecorded(Rejections[i])
          /\ Completed => last.result = "ErrFormFailedValidation"
          /\ rec.vals[Rejections[i].path] =
                IF dec.setValueOnValidationError THEN Rejections[i].value.v
                ELSE last.pre.vals[Rejections[i].path]

\* C6, its case: with the flag set, "uk" was rejected for CountryCode and assigned
C6_Witness ==
    /\ last.op = "Decode"
    /\ dec.setValueOnValidationError
    /\ last.result = "ErrFormFailedValidation"
    /\ \E i \in 1..Len(Rejections) : Rejections[i].path = <<"CountryCode">>
    /\ rec.vals[<<"CountryCode">>] = "uk"
    /\ last.pre.vals[<<"CountryCode">>] # "uk"

RoundTripPaths ==
    { <<"CountryCode">>, <<"Age">>, <<"Type">>, <<"FavouriteNumber">>, <<"Checkbox">>,
      <<"Time">>, <<"Pet">>, <<"ContactMethod">> }

\* C7: decoding what a browser posts from the form rendered for a record, into a
\* fresh record, gives back the record's string, numeric, boolean, time, select
\* and radio values.
C7_RoundTrip ==
    (last.op = "Decode" /\ last.sent.set) =>
       \A p \in RoundTripPaths : rec.vals[p] = last.sent.vals[p]

UnexportedPaths == {p \in LeafPaths : \E i \in 1..Len(p) : p[i] \in UnexportedNames}

\* C8: Encode renders nothing for an unexported field, and Decode completes
\* without reading the form for it, assigning it or failing on it.
C8_UnexportedSkipped ==
    /\ last.op = "Encode" =>
          \A i \in 1..Len(last.elements) : last.elements[i].path \notin UnexportedPaths
    /\ last.op = "Decode" =>
          /\ last.result # "panic"
          /\ \A p \in UnexportedPaths :
                /\ PathKey(p) \notin Range(last.lookups)
                /\ rec.vals[p] = last.pre.vals[p]

\* the posted value of a path does not parse as the field's kind
MalformedPost(p) ==
    /\ IsPosted(p)
    /\ LET v == dec.form[PathKey(p)][1]
           kind == LeafField(p).kind
       IN CASE kind = "int" -> v # "" /\ v \notin DOMAIN IntLits
            [] kind = "uint" -> v # "" /\ (v \notin DOMAIN IntLits \/ IntLits[v] < 0)
            [] kind = "float" -> v # "" /\ v \notin DOMAIN FloatLits
            [] kind = "bool" -> v \notin {"", "on"} /\ v \notin DOMAIN IntLits
            [] kind = "time" -> v \notin DOMAIN TimeLits
            [] kind = "map" -> v # "" /\ v \notin JSONLits
            [] OTHER -> FALSE

\* C9: when a visited field's posted value is malformed, Decode returns the parse
\* error of that field, visits no field after it, and neither validates nor
\* assigns the field.
C9_ParseErrorsAbort ==
    last.op = "Decode" =>
       \A p \in LeafPaths :
          (p \in Range(last.visited) /\ MalformedPost(p)) =>
             /\ last.result = "error"
             /\ last.err = p
             /\ last.visited[Len(last.visited)] = p
             /\ \A i \in 1..Len(last.calls) : last.calls[i].path # p
             /\ GetValidationErrors(store.errors, PathKey(p))
                   = GetValidationErrors(last.preErrors, PathKey(p))
             /\ rec.vals[p] = last.pre.vals[p]

\* C9, its case: "abc" posted for Age after a rejected CountryCode; the walk
\* stopped at Age
C9_Witness ==
    /\ last.op = "Decode"
    /\ last.result = "error"
    /\ last.err = <<"Age">>
    /\ Len(Rejections) > 0
    /\ <<"Type">> \notin Range(last.visited)

\* C10: the name Encode renders for a field, the key it reads the field's errors
\* under, the key Decode reads the field's posted values under and the key Decode
\* stores its errors under are one string, the field's path, for every prefix.
C10_OneJoinKey ==
    /\ last.op = "Encode" =>
          /\ \A i \in 1..Len(last.elements) :
                /\ last.elements[i].name = PathKey(last.elements[i].path)
                /\ last.elements[i].name = formElementName(TypeName \o last.elements[i].path)
          /\ \A i \in 1..Len(last.errkeys) :
                last.errkeys[i].key = PathKey(last.errkeys[i].path)
    /\ last.op = "Decode" =>
          /\ \A i \in 1..Len(last.lookups) : last.lookups[i].prefix = enc.elementNamePrefix
          /\ \A k \in DOMAIN store.errors : k.prefix = enc.elementNamePrefix

NoErrorsIn(st) ==
    \A p \in LeafPaths, prefix \in Prefixes :
       GetValidationErrors(st.errors, ElementName(prefix, p)) = <<>>

\* C11: every Encode call, whether it returns nil, returns an error or panics, calls
\* ClearValidationErrors before it ends; unless that call itself returns an error,
\* the store then has no errors for any field, so that what an Encode following such
\* an Encode writes shows no validation error: the errors of one failed Decode are
\* rendered by at most one Encode.
C11_EncodeClearsStore ==
    last.op = "Encode" =>
       /\ last.sops[Len(last.sops)].op = "ClearValidationErrors"
       /\ ~last.sops[Len(last.sops)].failed => NoErrorsIn(store)
       /\ (last.prev.op = "Encode" /\ last.prev.cleared) =>
             \A i \in 1..Len(last.output) : last.output[i].errors = <<>>

RendersStoredErrors ==
    \A p \in LeafPaths :
       GetValidationErrors(last.stored, PathKey(p)) # <<>> =>
          \E i \in 1..Len(last.encodedForm) :
             /\ last.encodedForm[i].path = p
             /\ last.encodedForm[i].errors = GetValidationErrors(last.stored, PathKey(p))

\* C13: Formulate returns passedValidation = true exactly for a POST whose Decode
\* returned nil; for ErrFormFailedValidation it returns err = nil, passedValidation
\* = false and the form rendered with the errors the Decode stored, on a store of
\* its own; any other Decode error is returned with an empty form and without an
\* Encode; a request that is no POST is not decoded.
C13_Formulate ==
    (last.op = "Formulate" /\ last.result # "panic") =>
       /\ last.passedValidation <=> (last.method = "POST" /\ last.decoded
                                       /\ last.decodeResult = "nil")
       /\ (last.decoded /\ last.decodeResult = "ErrFormFailedValidation") =>
             /\ last.result = "nil"
             /\ ~last.passedValidation
             /\ RendersStoredErrors
       /\ (last.decoded /\ last.decodeResult = "error") =>
             /\ last.result = "error"
             /\ last.encodedForm = <<>>
             /\ ~last.encoded
       /\ last.method # "POST" => ~last.decoded
       /\ store = last.preStore

\* a field is shown only if every registered condition its show tag names holds
AllConditionsHold(field, conds) ==
    \A i \in 1..Len(field.show) : field.show[i] \in DOMAIN conds => conds[field.show[i]]

\* C17: Encode renders a field only if every registered show condition named on it,
\* and on every struct it lies in, returns true, whatever the order of the names.
C17_ShownOnlyIfAllHold ==
    last.op = "Encode" =>
       \A i \in 1..Len(last.elements) :
          \A j \in 1..Len(last.elements[i].path) :
             AllConditionsHold(FieldsOn(last.elements[i].path)[j], enc.showConditions)

\* a store operation of the last call that returned an error
FailedOps(ops) == {i \in 1..Len(last.sops) : last.sops[i].failed /\ last.sops[i].op \in ops}

\* C19, as first stated: if any store operation called during an Encode or a Decode
\* returns an error, the call returns an error, never nil.
C19_AsStated ==
    last.op \in {"Decode", "Encode"} =>
       (FailedOps(StoreOps) # {} => last.result = "error")

\* C19: if a store operation other than GetFormValue called during an Encode or a
\* Decode returns an error, the call returns an error, never nil: the error of the
\* first such operation.
C19_StoreErrorsPropagated ==
    last.op \in {"Decode", "Encode"} =>
       LET failed == FailedOps(StoreOps \ {"GetFormValue"})
       IN failed # {} =>
             /\ last.result = "error"
             /\ last.storeErr = last.sops[CHOOSE i \in failed : \A j \in failed : i <= j].op

\* C19, its case: GetValidationErrors failed during an Encode, then the deferred
\* ClearValidationErrors failed too; Encode returned the first error
C19_Witness ==
    /\ last.op = "Encode"
    /\ last.result = "error"
    /\ last.storeErr = "GetValidationErrors"
    /\ Cardinality(FailedOps(StoreOps \ {"GetFormValue"})) = 2

\* the values posted under CustomValue
PostedNumbers == IF CustomValue \in DOMAIN dec.form THEN dec.form[CustomValue] ELSE <<>>

\* Decode panicked and left the argument's variable as it was
PanickedUntouched == last.result = "panic" /\ rec = last.pre

C15_TypeMismatch ==
    (last.op = "Encode"
       /\ arg \in {"nil", "(*YourDetails)(nil)", "(*customDecoderTest)(nil)", "int", "&int",
                   "&customDecoderTest"}) =>
          /\ last.result = "error"
          /\ last.storeErr = "none"
          /\ ~last.written
          /\ last.elements = <<>>

SelectElement(path) ==
    last.elements[CHOOSE i \in 1..Len(last.elements) : last.elements[i].path = path]

\* the values of the options of a rendered select that are marked selected
SelectedValues(path) ==
    {SelectElement(path).opts[k].value :
        k \in {j \in 1..Len(SelectElement(path).opts) : SelectElement(path).opts[j].checked}}

\* C16: for a multi-select whose options carry no Checked, Encode marks selected
\* exactly the options whose value, as a string, is that of an element of the
\* field's collection, for string and integer options alike; an option's Checked
\* decides for that option instead.
C16_MultiSelectMembership ==
    (last.op = "Encode" /\ arg = "&test" /\ last.result = "nil") =>
       /\ SelectedValues(<<"Food">>) =
             Range(last.rendered.vals[<<"Food">>])
                \cap {"burger", "pizza", "beans", "banana"}
       /\ SelectedValues(<<"Number">>) =
             {CASE n = 0 -> "0" [] n = 1 -> "1" [] n = 2 -> "2" :
                 n \in Range(last.rendered.vals[<<"Number">>])}
       /\ SelectedValues(<<"Pinned">>) =
             {"burger"} \cup (Range(last.rendered.vals[<<"Pinned">>]) \cap {"beans"})

\* C16, its case: the test's struct with Food burger and pizza, Number 1 and 2, and
\* pizza and beans in the select whose options pin burger on and pizza off
C16_Witness ==
    /\ last.op = "Encode"
    /\ arg = "&test"
    /\ last.result = "nil"
    /\ last.rendered.vals[<<"Food">>] = <<"burger", "pizza">>
    /\ last.rendered.vals[<<"Number">>] = <<1, 2>>
    /\ SelectedValues(<<"Number">>) = {"1", "2"}
    /\ last.rendered.vals[<<"Pinned">>] = <<"pizza", "beans">>
    /\ SelectedValues(<<"Pinned">>) = {"burger", "beans"}

PostedUnder(name) ==
    IF ElementName("", <<name>>) \in DOMAIN dec.form
    THEN dec.form[ElementName("", <<name>>)] ELSE <<>>

\* C18: for a bool field and for a BoolNumber field alike, a posted "on" or "1"
\* decodes to true (1), a posted "0" to false (0), and when the key is not posted
\* Decode completes without panic or error.
C18_CheckboxConvention ==
    (last.op = "Decode" /\ arg = "&test"
       /\ PostedUnder("Checkbox") \in { <<>>, <<"on">>, <<"1">>, <<"0">> }
       /\ PostedUnder("Subscribed") \in { <<>>, <<"on">>, <<"1">>, <<"0">> }) =>
       /\ last.result = "nil"
       /\ PostedUnder("Checkbox") \in { <<"on">>, <<"1">> } => rec.vals[<<"Checkbox">>] = TRUE
       /\ PostedUnder("Checkbox") = <<"0">> => rec.vals[<<"Checkbox">>] = FALSE
       /\ PostedUnder("Subscribed") \in { <<"on">>, <<"1">> } => rec.vals[<<"Subscribed">>] = 1
       /\ PostedUnder("Subscribed") = <<"0">> => rec.vals[<<"Subscribed">>] = 0

\* C20: after RenderHTMLToNode(data, parent) has returned nil, the children of parent
\* are exactly the body nodes parsed from data, in document order, and none of the
\* children parent had before the call remains, however many there were.
C20_ParentEmptied ==
    (last.op = "RenderHTMLToNode" /\ last.result = "nil") =>
       LET now == Children(dom, dom[Parent].FirstChild)
       IN /\ now = last.body
          /\ [i \in 1..Len(now) |-> dom[now[i]].Data] = last.data
          /\ Range(now) \cap Range(last.before) = {}


\* C21: the failure counter is scoped to one Decode call: a Decode returns
\* ErrFormFailedValidation only if a validator rejected a value during that call, and
\* a Decode whose values all pass validation returns nil, also when an earlier
\* Decode on the same decoder failed validation.
C21_CounterScopedToCall ==
    last.op = "Decode" =>
       /\ last.result = "ErrFormFailedValidation" => Len(Rejections) > 0
       /\ (Completed /\ Len(Rejections) = 0) => last.result = "nil"


\* C22: the encoder retains nothing of a record between calls: what an Encode call
\* writes holds the form elements of the record passed to that call only, each field
\* once, and nothing rendered by an earlier Encode on the same encoder.
C22_NothingRetained ==
    (last.op = "Encode" /\ last.written) => last.output = last.elements

\* C23: Decode leaves a time field at the value it had when nothing is posted under
\* its key, as it does the other primitive kinds: a pre-populated time is never reset
\* to the zero time.
C23_TimeKeptWhenAbsent ==
    (last.op = "Decode" /\ ~IsPosted(<<"Time">>)) =>
       rec.vals[<<"Time">>] = last.pre.vals[<<"Time">>]

\* what was posted for a field of the struct Sized
SizedPost(path) == dec.form[ElementName("", path)][1]

\* C24: for an integer field of any width and any posted base-10 integer, Decode
\* either assigns the field exactly the integer the string denotes or returns a parse
\* error: no value is stored wrapped modulo 2^w, and the value handed to the
\* validators is the value that ends up in the field.
C24_NoWrapAround ==
    (last.op = "Decode" /\ arg = "&sized") =>
       /\ \A j \in 1..Len(last.assigned) :
             /\ SizedPost(last.assigned[j].path) \in DOMAIN IntLits
             /\ last.assigned[j].v = IntLits[SizedPost(last.assigned[j].path)]
       /\ \A j \in 1..Len(last.calls) :
             (\E k \in 1..Len(last.assigned) : last.assigned[k].path = last.calls[j].path)
                => last.calls[j].value.v = rec.vals[last.calls[j].path]
       /\ \A p \in SizedPaths :
             (ElementName("", p) \in DOMAIN dec.form
                /\ \A k \in 1..Len(last.assigned) : last.assigned[k].path # p)
                => (last.result = "error" \/ (\E j \in 1..Len(last.calls) :
                                                 last.calls[j].path = p /\ ~last.calls[j].ok))

\* the values of the options that the select rule marks, for a single-value select
\* with the radio list's options and the value v
SelectMarked(v) ==
    {toString(ContactMethodOptions[k].Value) :
        k \in {j \in 1..Len(ContactMethodOptions) :
                  Selected("Pet", v, ContactMethodOptions[j])}}

\* C25: a radio list and a single-value select with the same options and the same
\* current value get the same option marked by Encode: the radio option whose value
\* equals the field's current value is checked, and no other option is.
C25_RadioLikeSelect ==
    (last.op = "Encode" /\ arg = "&YourDetails" /\ last.result = "nil"
       /\ \E i \in 1..Len(last.elements) : last.elements[i].path = <<"ContactMethod">>) =>
       /\ SelectedValues(<<"ContactMethod">>)
             = SelectMarked(last.rendered.vals[<<"ContactMethod">>])
       /\ SelectedValues(<<"ContactMethod">>)
             = {last.rendered.vals[<<"ContactMethod">>]}
                  \cap {"phone", "email", "post", "carrier_pigeon"}

\* the i-th name of a show tag is the first one that is a registered condition
Decides(field, conds, i) ==
    /\ field.show[i] \in DOMAIN conds
    /\ \A j \in 1..(i - 1) : field.show[j] \notin DOMAIN conds

Rendered(path) == \E i \in 1..Len(last.elements) : last.elements[i].path = path

StructPaths == { <<>>, <<"EmptyStruct">>, <<"Address">> }

Beneath(s, path) == Len(s) <= Len(path) /\ SubSeq(path, 1, Len(s)) = s

\* every field beneath the struct at s is hidden, lies in a hidden struct, or is
\* unexported
NothingToShow(s) ==
    \A p \in {q \in LeafPaths : Beneath(s, q)} :
       \/ \E i \in 1..Len(p) : Hidden(FieldsOn(p)[i], enc.showConditions)
       \/ p[1] \in UnexportedNames

FieldsetAt(s) == \E i \in 1..Len(last.fieldsets) : last.fieldsets[i].path = s

\* C27: Encode emits no empty fieldset: a struct whose fields are all, recursively,
\* hidden or unexported contributes no fieldset and no control, nested or not, and
\* each fieldset emitted holds at least one node and one rendered field.
C27_NoEmptyFieldset ==
    (last.op = "Encode" /\ arg = "&YourDetails" /\ last.result = "nil") =>
       /\ \A s \in StructPaths :
             NothingToShow(s) =>
                /\ ~FieldsetAt(s)
                /\ \A i \in 1..Len(last.elements) : ~Beneath(s, last.elements[i].path)
                /\ s = <<>> => last.nodes = 0
       /\ \A i \in 1..Len(last.fieldsets) :
             /\ last.fieldsets[i].children > 0
             /\ \E j \in 1..Len(last.elements) :
                   Beneath(last.fieldsets[i].path, last.elements[j].path)
       /\ \A i \in 1..Len(last.fieldsets) :
             last.fieldsets[i].path = <<>> =>
                last.fieldsets[i].children =
                   Cardinality({j \in 1..Len(last.elements) : Len(last.elements[j].path) = 1})
                     + Cardinality({j \in 1..Len(last.fieldsets) :
                                       Len(last.fieldsets[j].path) = 1})

\* C27, its case: an Encode that rendered the record in its fieldset and the fields
\* of Address in theirs, with no fieldset for EmptyStruct, whose one field is hidden
C27_Witness ==
    /\ last.op = "Encode"
    /\ arg = "&YourDetails"
    /\ last.result = "nil"
    /\ NothingToShow(<<"EmptyStruct">>)
    /\ ~FieldsetAt(<<"EmptyStruct">>)
    /\ FieldsetAt(<<"Address">>)
    /\ FieldsetAt(<<>>)

(***************************************************************************)
(* An encoder and a decoder that were not given the same show conditions:  *)
(* AddShowCondition is a method of each instance's own registry.           *)
(***************************************************************************)
RegistryForms ==
    UNION { FormsOver(S) :
               S \in SUBSET { <<"IgnoredField">>, <<"AddressLine2">>, <<"Address", "Country">> } }

InitRegistries ==
    /\ rec \in Records
    /\ \E form \in RegistryForms, conds \in Registries, b \in BOOLEAN :
          dec = [NewDecoder(form) EXCEPT !.showConditions = conds,
                                          !.validators = ValidatorNames,
                                          !.setValueOnValidationError = b]
    /\ \E conds \in Registries : enc = [NewEncoder EXCEPT !.showConditions = conds]
    /\ store = EmptyStore
    /\ last = [op |-> "none"]
    /\ nops = 0
    /\ arg = "&YourDetails"
    /\ dom = NoTree

NextRegistries == Encode \/ Decode

SpecRegistries == InitRegistries /\ [][NextRegistries]_vars

\* the show tag is not "-" and none of its names is a registered condition
NamesOnlyUnregistered(field, conds) ==
    /\ field.show # <<"-">>
    /\ \A i \in 1..Len(field.show) : field.show[i] \notin DOMAIN conds

\* the field at path, and every struct it lies in, names only unregistered conditions
FailsOpen(path, conds) ==
    \A i \in 1..Len(path) : NamesOnlyUnregistered(FieldsOn(path)[i], conds)

\* C28: an exported field whose show tag is not "-" and names no condition that is
\* registered on the instance at work counts as visible: Encode renders it, and
\* Decode visits it and assigns its posted value, also when the encoder, holding a
\* condition the decoder lacks, never rendered it.
C28_FailsOpen ==
    \A p \in {q \in LeafPaths : q[1] \notin UnexportedNames} :
       /\ (last.op = "Encode" /\ last.result = "nil" /\ FailsOpen(p, enc.showConditions))
             => Rendered(p)
       /\ (last.op = "Decode" /\ Completed /\ FailsOpen(p, dec.showConditions)) =>
             /\ p \in Range(last.visited)
             /\ (/\ IsPosted(p)
                 /\ LeafField(p).kind = "string"
                 /\ \/ dec.setValueOnValidationError
                    \/ \A i \in 1..Len(Rejections) : Rejections[i].path # p)
                   => rec.vals[p] = dec.form[PathKey(p)][1]

\* C28, its case: the encoder holds invisible -> false and the decoder holds no
\* condition; Encode wrote a form without Address.Country, and Decode assigned the
\* posted Address.Country
C28_Witness ==
    /\ last.op = "Decode"
    /\ enc.showConditions = [invisible |-> FALSE]
    /\ dec.showConditions = <<>>
    /\ enc.n # <<>>
    /\ \A i \in 1..Len(enc.n) : enc.n[i].path # <<"Address", "Country">>
    /\ last.pre.vals[<<"Address", "Country">>] # "UK"
    /\ rec.vals[<<"Address", "Country">>] = "UK"

PrimitiveKinds == {"string", "int", "uint", "float", "bool"}

\* C29: Decode calls no validator and records no validation error for a string,
\* numeric or boolean field whose key is not posted, and returns nil when nothing
\* is posted, also when a validator of such a field rejects the value it holds.
C29_AbsentNotValidated ==
    (last.op = "Decode" /\ arg = "&YourDetails") =>
       /\ \A p \in LeafPaths :
             (Kind(LeafField(p).kind) \in PrimitiveKinds /\ ~IsPosted(p)) =>
                /\ \A i \in 1..Len(last.calls) : last.calls[i].path # p
                /\ GetValidationErrors(store.errors, PathKey(p))
                      = GetValidationErrors(last.preErrors, PathKey(p))
       /\ dec.form = <<>> => (last.result = "nil" /\ last.calls = <<>>)

\* C29, its case: nothing is posted, Age holds 0, which its validator minAge(20)
\* rejects, and Decode returned nil
C29_Witness ==
    /\ last.op = "Decode"
    /\ arg = "&YourDetails"
    /\ dec.form = <<>>
    /\ rec.vals[<<"Age">>] = 0
    /\ "minAge(20)" \in Range(LeafField(<<"Age">>).validators)
    /\ ~Validate("minAge(20)", TV("int64", 0)).ok
    /\ last.result = "nil"

\* the assignments of the last call to the field at path
AssignedTo(path) == {j \in 1..Len(last.assigned) : last.assigned[j].path = path}

\* C30: a Decode that returns the parse error of a field F undoes nothing: each
\* field it assigned before F holds the value assigned, F and the fields it did not
\* reach hold what they held before the call, the validation errors added before F
\* are in the store, and no snapshot of the record was written.
C30_NoRollback ==
    (last.op = "Decode" /\ arg = "&YourDetails" /\ last.result = "error"
       /\ last.storeErr = "none") =>
       /\ last.err = last.visited[Len(last.visited)]
       /\ \A p \in LeafPaths :
             /\ AssignedTo(p) # {} =>
                   rec.vals[p] = last.assigned[CHOOSE j \in AssignedTo(p) :
                                                  \A k \in AssignedTo(p) : k <= j].v
             /\ (p = last.err \/ p \notin Range(last.visited)) =>
                   rec.vals[p] = last.pre.vals[p]
             /\ GetValidationErrors(store.errors, PathKey(p))
                   = GetValidationErrors(last.preErrors, PathKey(p)) \o RejectionsOf(p)
       /\ ~last.saved
       /\ store.value = last.preValue

\* C30, its case: CountryCode was posted as "uk", rejected and, the decoder being
\* set to assign rejected values, assigned; then Age did not parse
C30_Witness ==
    /\ last.op = "Decode"
    /\ last.result = "error"
    /\ last.err = <<"Age">>
    /\ last.pre.vals[<<"CountryCode">>] # "uk"
    /\ rec.vals[<<"CountryCode">>] = "uk"
    /\ rec.vals[<<"Age">>] = last.pre.vals[<<"Age">>]
    /\ RejectionsOf(<<"CountryCode">>) # <<>>
    /\ GetValidationErrors(store.errors, PathKey(<<"CountryCode">>)) # <<>>
    /\ ~store.value.set

====
